---- MODULE Spec2Model ----
(***************************************************************************)
(* Model of src/app.py, the fraud-monitoring dashboard script.             *)
(*                                                                         *)
(* The script is one top-to-bottom program that the UI framework executes  *)
(* once when a browser session connects and again after every widget       *)
(* interaction of that session.  One execution reads the widgets (lines    *)
(* 22-31), evaluates the four threshold rules, the score, the label and    *)
(* the proxy ratios (lines 34-67), builds the risk time series (line 124)  *)
(* and finally draws and tabulates the Benford sample (lines 139-143).     *)
(*                                                                         *)
(* Every session has its own copy of the script's variables; the NumPy     *)
(* generator behind np.random.choice is the one module-level generator of  *)
(* the server process and is therefore a single variable, rng.  A script   *)
(* execution is modelled as two steps, split at the only access to that    *)
(* generator: everything before line 139, then the draw with its           *)
(* tabulation.                                                             *)
(*                                                                         *)
(* Units: percentages are integers as the integer sliders give them;       *)
(* debt_equity, altman_z and beneish_m are in hundredths (0.9 is 90), the  *)
(* step of the float slider and the precision of round(x, 2).              *)
(***************************************************************************)
EXTENDS Integers, Sequences, FiniteSets

VARIABLES
    revenue_growth,          \* line 25, per session
    cashflow_growth,         \* line 26
    accruals,                \* line 27
    debt_equity,             \* line 28, in hundredths
    working_capital_change,  \* line 29
    run,                     \* line 31, the button's value in the latest execution
    flags,                   \* lines 34-46
    flag_count,              \* line 48
    fraud_score,             \* line 51
    risk_label,              \* lines 53-57
    altman_z,                \* line 66, in hundredths
    beneish_m,               \* line 67, in hundredths
    risk_series,             \* line 124
    benford_df,              \* lines 142-143, rows <<Digit, Count>>
    pc,                      \* per session: "new", "benford" or "done"
    rng                      \* state of the process-wide generator (line 139)

vars == <<revenue_growth, cashflow_growth, accruals, debt_equity,
          working_capital_change, run, flags, flag_count, fraud_score, risk_label,
          altman_z, beneish_m, risk_series, benford_df, pc, rng>>

inputVars == <<revenue_growth, cashflow_growth, accruals, debt_equity,
               working_capital_change, run>>

----------------------------------------------------------------------------
(* Bounds of the exploration.                                              *)

\* How far around each rule's threshold the explored slider values reach.
Spread == 1

\* Number of states of the model's stand-in for the generator.
RngStates == 27

\* Highest initial generator state explored while the sliders are moved.
MaxSeed == 1

----------------------------------------------------------------------------
(* Program constants.                                                      *)

SampleSize == 200

RevenueGrowthMin == -20
RevenueGrowthMax == 100
RevenueGrowthDefault == 25
CashflowGrowthMin == -20
CashflowGrowthMax == 100
CashflowGrowthDefault == 8
AccrualsMin == 0
AccrualsMax == 30
AccrualsDefault == 12
DebtEquityMin == 0
DebtEquityMax == 250
DebtEquityDefault == 90
WorkingCapitalMin == -30
WorkingCapitalMax == 30
WorkingCapitalDefault == 15

AccrualsThreshold == 10
DebtEquityThreshold == 120
WorkingCapitalThreshold == 10

MsgRevenue == "Revenue growing much faster than cash flows"
MsgAccruals == "High accruals -> possible earnings manipulation"
MsgLeverage == "High leverage -> financial stress"
MsgWorkingCapital == "Unusual working capital movement"

\* The p argument of np.random.choice, in percent, and the population it draws from.
BenfordP == <<30, 18, 12, 10, 8, 7, 6, 5, 4>>
Population == <<1, 2, 3, 4, 5, 6, 7, 8, 9>>

----------------------------------------------------------------------------
(* Slider values explored: each slider's default and the values within     *)
(* Spread of a value at which its rule flips; for the two growth sliders   *)
(* also negative growth, revenue near the lower end of its range.          *)

Near(v, t) == (v - t <= Spread) /\ (t - v <= Spread)

CashflowGrowthValues ==
    {CashflowGrowthDefault}
    \cup {c \in CashflowGrowthMin..CashflowGrowthMax :
            Near(c * 2, RevenueGrowthDefault) \/ Near(c * 2, RevenueGrowthMin)}

RevenueGrowthValues ==
    {RevenueGrowthDefault}
    \cup {v \in RevenueGrowthMin..RevenueGrowthMax :
            Near(v, CashflowGrowthDefault * 2) \/ Near(v, RevenueGrowthMin)}

AccrualsValues ==
    {AccrualsDefault} \cup {v \in AccrualsMin..AccrualsMax : Near(v, AccrualsThreshold)}

DebtEquityValues ==
    {DebtEquityDefault}
    \cup {v \in DebtEquityMin..DebtEquityMax : Near(v, DebtEquityThreshold)}

WorkingCapitalValues ==
    {WorkingCapitalDefault}
    \cup {v \in WorkingCapitalMin..WorkingCapitalMax : Near(v, WorkingCapitalThreshold)}

----------------------------------------------------------------------------
(* FRAUD LOGIC, lines 34-57.                                               *)

\* Faulty variant of InitialFlags: the list of the previous execution is kept.
InitialFlagsKept(s) == flags[s]

\* Line 34: every execution starts from an empty list.
InitialFlags(s) == <<>>

\* Faulty variant of Rule2: the accruals comparison made inclusive.
Rule2Inclusive(f, acc) ==
    IF acc >= AccrualsThreshold THEN Append(f, MsgAccruals) ELSE f

Rule1(f, rev, cf) == IF rev > cf * 2 THEN Append(f, MsgRevenue) ELSE f

Rule2(f, acc) == IF acc > AccrualsThreshold THEN Append(f, MsgAccruals) ELSE f

Rule3(f, de) == IF de > DebtEquityThreshold THEN Append(f, MsgLeverage) ELSE f

Rule4(f, wc) ==
    IF wc > WorkingCapitalThreshold THEN Append(f, MsgWorkingCapital) ELSE f

FlagsOf(s, rev, cf, acc, de, wc) ==
    Rule4(Rule3(Rule2(Rule1(InitialFlags(s), rev, cf), acc), de), wc)

\* Faulty variant of FlagCount: the index of the last element instead of the length.
FlagCountLastIndex(f) == IF Len(f) = 0 THEN 0 ELSE Len(f) - 1

FlagCount(f) == Len(f)

Min(a, b) == IF a < b THEN a ELSE b

\* Faulty variant of FraudScore: the base score of 20 dropped.
FraudScoreNoBase(n) == Min(100, n * 20)

FraudScore(n) == Min(100, 20 + n * 20)

\* Faulty variant of RiskLabel: the LOW boundary made inclusive.
RiskLabelInclusive(score) ==
    IF score <= 40 THEN "LOW" ELSE IF score < 70 THEN "MODERATE" ELSE "HIGH"

RiskLabel(score) ==
    IF score < 40 THEN "LOW" ELSE IF score < 70 THEN "MODERATE" ELSE "HIGH"

----------------------------------------------------------------------------
(* KPI CARDS, lines 66-67: round(x, 2) of a value num/den hundredths.      *)

\* Faulty variant of Round2: truncation toward minus infinity instead of rounding.
Round2Truncated(num, den) == {num \div den}

\* The results round(x, 2) can give for x = num/den hundredths (den > 0).
\* Off a tie the nearest hundredth; on a decimal tie the direction depends
\* on the binary representation error of x, so both neighbours are admitted.
Round2(num, den) ==
    LET q == num \div den
        r == num % den
    IN  IF 2 * r < den THEN {q}
        ELSE IF 2 * r > den THEN {q + 1}
        ELSE {q, q + 1}

\* 3.0 - debt_equity - accruals/20, in hundredths: 300 - de - 5*acc.
AltmanZ(de, acc) == Round2(300 - de - 5 * acc, 1)

\* accruals/8 + revenue_growth/60 = (15*acc + 2*rev)/120, in hundredths
\* (15*acc + 2*rev) * 5 / 6.
BeneishM(acc, rev) == Round2((15 * acc + 2 * rev) * 5, 6)

\* Line 124.
RiskSeries(score) == <<30, 45, 55, 65, score>>

----------------------------------------------------------------------------
(* BENFORD, lines 139-143.                                                 *)

\* One step of the generator.  The Mersenne Twister behind np.random is
\* represented by a multiplicative congruential generator on RngStates
\* states: deterministic in its state, and advanced by every variate drawn.
NextRng(x) == (x * 11) % RngStates

\* The uniform variate in [0, 1) a generator state yields, in percent.
Uniform(x) == (x * 100) \div RngStates

\* p.cumsum() at index k.
RECURSIVE Cdf(_)
Cdf(k) == IF k = 0 THEN 0 ELSE Cdf(k - 1) + BenfordP[k]

\* cdf.searchsorted(u, side='right'): the number of cdf entries <= u; the
\* draw is the population element at that (0-based) index.
DigitOf(u) == Population[1 + Cardinality({k \in 1..Len(BenfordP) : Cdf(k) <= u})]

\* The generator state after n steps, for every n up to the sample size:
\* n steps are n \div 2 steps followed by the remaining ones.
RngJump[n \in 0..SampleSize] ==
    [x \in 0..(RngStates - 1) |->
        IF n = 0 THEN x
        ELSE IF n = 1 THEN NextRng(x)
        ELSE RngJump[n - (n \div 2)][RngJump[n \div 2][x]]]

\* The generator state after n variates.
RngAfter(x, n) == RngJump[n][x]

\* np.random.choice(..., size=n, p=...) from generator state x: the digits
\* of the next n variates, in the order drawn.
Draw(x, n) == [i \in 1..n |-> DigitOf(Uniform(RngAfter(x, i)))]

Occurrences(digits, d) == Cardinality({i \in DOMAIN digits : digits[i] = d})

\* Rows <<value, count>> of the values in keys, by descending count (equal
\* counts in ascending order of the value).
RECURSIVE SortedRows(_, _)
SortedRows(digits, keys) ==
    IF keys = {} THEN <<>>
    ELSE LET best == CHOOSE d \in keys : \A e \in keys :
                        \/ Occurrences(digits, d) > Occurrences(digits, e)
                        \/ /\ Occurrences(digits, d) = Occurrences(digits, e)
                           /\ d <= e
         IN  <<<<best, Occurrences(digits, best)>>>> \o SortedRows(digits, keys \ {best})

\* Faulty variant of ValueCounts: a row for every digit of the population, drawn or not.
ValueCountsAllDigits(digits) ==
    SortedRows(digits, {Population[k] : k \in DOMAIN Population})

\* DataFrame(digits).value_counts().reset_index(): one row per distinct
\* value that occurs in digits.
ValueCounts(digits) == SortedRows(digits, {digits[i] : i \in DOMAIN digits})

\* Per generator state: the digits array of line 139, the table of lines
\* 142-143, and the generator state the draw leaves.
DigitsTable == [x \in 0..(RngStates - 1) |-> Draw(x, SampleSize)]
BenfordTable == [x \in 0..(RngStates - 1) |-> ValueCounts(DigitsTable[x])]
RngAfterDraw == [x \in 0..(RngStates - 1) |-> RngAfter(x, SampleSize)]

----------------------------------------------------------------------------
(* The script, per session s.                                              *)

Sessions == DOMAIN pc

\* Lines 22-134 with the widget values rev..wc and button value r.
ScriptBody(s, rev, cf, acc, de, wc, r) ==
    /\ revenue_growth' = [revenue_growth EXCEPT ![s] = rev]
    /\ cashflow_growth' = [cashflow_growth EXCEPT ![s] = cf]
    /\ accruals' = [accruals EXCEPT ![s] = acc]
    /\ debt_equity' = [debt_equity EXCEPT ![s] = de]
    /\ working_capital_change' = [working_capital_change EXCEPT ![s] = wc]
    /\ run' = [run EXCEPT ![s] = r]
    /\ flags' = [flags EXCEPT ![s] = FlagsOf(s, rev, cf, acc, de, wc)]
    /\ flag_count' = [flag_count EXCEPT ![s] = FlagCount(flags'[s])]
    /\ fraud_score' = [fraud_score EXCEPT ![s] = FraudScore(flag_count'[s])]
    /\ risk_label' = [risk_label EXCEPT ![s] = RiskLabel(fraud_score'[s])]
    /\ \E z \in AltmanZ(de, acc) : altman_z' = [altman_z EXCEPT ![s] = z]
    /\ \E m \in BeneishM(acc, rev) : beneish_m' = [beneish_m EXCEPT ![s] = m]
    /\ risk_series' = [risk_series EXCEPT ![s] = RiskSeries(fraud_score'[s])]
    /\ benford_df' = [benford_df EXCEPT ![s] = <<>>]
    /\ pc' = [pc EXCEPT ![s] = "benford"]
    /\ UNCHANGED rng

\* Faulty variant of RunScript: the analysis gated on the button.
RunScriptGated(s, rev, cf, acc, de, wc, r) ==
    IF r \/ pc[s] = "new"
    THEN ScriptBody(s, rev, cf, acc, de, wc, r)
    ELSE /\ revenue_growth' = [revenue_growth EXCEPT ![s] = rev]
         /\ cashflow_growth' = [cashflow_growth EXCEPT ![s] = cf]
         /\ accruals' = [accruals EXCEPT ![s] = acc]
         /\ debt_equity' = [debt_equity EXCEPT ![s] = de]
         /\ working_capital_change' = [working_capital_change EXCEPT ![s] = wc]
         /\ run' = [run EXCEPT ![s] = r]
         /\ benford_df' = [benford_df EXCEPT ![s] = <<>>]
         /\ pc' = [pc EXCEPT ![s] = "benford"]
         /\ UNCHANGED <<flags, flag_count, fraud_score, risk_label, altman_z,
                        beneish_m, risk_series, rng>>

\* One execution of the script up to the Benford section.  The button's
\* value r is read (line 31) and used nowhere.
RunScript(s, rev, cf, acc, de, wc, r) == ScriptBody(s, rev, cf, acc, de, wc, r)

\* The session connects: first execution, every widget at its default.
Load(s) ==
    /\ pc[s] = "new"
    /\ RunScript(s, revenue_growth[s], cashflow_growth[s], accruals[s],
                 debt_equity[s], working_capital_change[s], FALSE)

ChangeRevenueGrowth(s, v) ==
    /\ pc[s] = "done"
    /\ v # revenue_growth[s]
    /\ RunScript(s, v, cashflow_growth[s], accruals[s], debt_equity[s],
                 working_capital_change[s], FALSE)

ChangeCashflowGrowth(s, v) ==
    /\ pc[s] = "done"
    /\ v # cashflow_growth[s]
    /\ RunScript(s, revenue_growth[s], v, accruals[s], debt_equity[s],
                 working_capital_change[s], FALSE)

ChangeAccruals(s, v) ==
    /\ pc[s] = "done"
    /\ v # accruals[s]
    /\ RunScript(s, revenue_growth[s], cashflow_growth[s], v, debt_equity[s],
                 working_capital_change[s], FALSE)

ChangeDebtEquity(s, v) ==
    /\ pc[s] = "done"
    /\ v # debt_equity[s]
    /\ RunScript(s, revenue_growth[s], cashflow_growth[s], accruals[s], v,
                 working_capital_change[s], FALSE)

ChangeWorkingCapital(s, v) ==
    /\ pc[s] = "done"
    /\ v # working_capital_change[s]
    /\ RunScript(s, revenue_growth[s], cashflow_growth[s], accruals[s],
                 debt_equity[s], v, FALSE)

\* The button is clicked: it reads True in the execution the click triggers.
PressRun(s) ==
    /\ pc[s] = "done"
    /\ RunScript(s, revenue_growth[s], cashflow_growth[s], accruals[s],
                 debt_equity[s], working_capital_change[s], TRUE)

\* The company name or the year is changed (lines 22-23): an execution with
\* the five metrics as they were and the button unpressed.
ChangeCompanyOrYear(s) ==
    /\ pc[s] = "done"
    /\ RunScript(s, revenue_growth[s], cashflow_growth[s], accruals[s],
                 debt_equity[s], working_capital_change[s], FALSE)

\* Lines 139-143: the draw from the shared generator and its tabulation.
Benford(s) ==
    /\ pc[s] = "benford"
    /\ benford_df' = [benford_df EXCEPT ![s] = BenfordTable[rng]]
    /\ rng' = RngAfterDraw[rng]
    /\ pc' = [pc EXCEPT ![s] = "done"]
    /\ UNCHANGED <<inputVars, flags, flag_count, fraud_score, risk_label,
                   altman_z, beneish_m, risk_series>>

----------------------------------------------------------------------------
(* Specifications.                                                         *)

\* The sessions in S are connected and have not executed the script yet; the
\* process's generator is in one of the states in seeds.
InitWith(S, seeds) ==
    /\ revenue_growth = [s \in S |-> RevenueGrowthDefault]
    /\ cashflow_growth = [s \in S |-> CashflowGrowthDefault]
    /\ accruals = [s \in S |-> AccrualsDefault]
    /\ debt_equity = [s \in S |-> DebtEquityDefault]
    /\ working_capital_change = [s \in S |-> WorkingCapitalDefault]
    /\ run = [s \in S |-> FALSE]
    /\ flags = [s \in S |-> <<>>]
    /\ flag_count = [s \in S |-> 0]
    /\ fraud_score = [s \in S |-> 0]
    /\ risk_label = [s \in S |-> "NONE"]
    /\ altman_z = [s \in S |-> 0]
    /\ beneish_m = [s \in S |-> 0]
    /\ risk_series = [s \in S |-> <<>>]
    /\ benford_df = [s \in S |-> <<>>]
    /\ pc = [s \in S |-> "new"]
    /\ rng \in seeds

\* One session whose sliders are moved; the generator starts in one of the
\* first states.
Init == InitWith({1}, 0..MaxSeed)

Next ==
    \E s \in Sessions :
        \/ Load(s)
        \/ \E v \in RevenueGrowthValues : ChangeRevenueGrowth(s, v)
        \/ \E v \in CashflowGrowthValues : ChangeCashflowGrowth(s, v)
        \/ \E v \in AccrualsValues : ChangeAccruals(s, v)
        \/ \E v \in DebtEquityValues : ChangeDebtEquity(s, v)
        \/ \E v \in WorkingCapitalValues : ChangeWorkingCapital(s, v)
        \/ PressRun(s)
        \/ ChangeCompanyOrYear(s)
        \/ Benford(s)

Spec == Init /\ [][Next]_vars

\* One session that is re-executed with the sliders left alone; the
\* generator starts in any state.
InitBenford == InitWith({1}, 0..(RngStates - 1))

NextBenford ==
    \E s \in Sessions :
        \/ Load(s)
        \/ PressRun(s)
        \/ ChangeCompanyOrYear(s)
        \/ Benford(s)

SpecBenford == InitBenford /\ [][NextBenford]_vars

\* Two sessions served by the same process; their steps interleave freely.
InitConc == InitWith({1, 2}, 0..MaxSeed)

NextConc ==
    \E s \in Sessions :
        \/ Load(s)
        \/ \E v \in AccrualsValues : ChangeAccruals(s, v)
        \/ \E v \in WorkingCapitalValues : ChangeWorkingCapital(s, v)
        \/ Benford(s)

SpecConc == InitConc /\ [][NextConc]_vars

----------------------------------------------------------------------------
(* Properties.                                                             *)

\* C1: after every execution the flags list is exactly the fixed message
\* order <<revenue, accruals, leverage, working capital>> filtered by the
\* four strict comparisons (revenue_growth > 2 * cashflow_growth,
\* accruals > 10, debt_equity > 1.2, working_capital_change > 10), and no
\* message occurs twice.
C1_FlagsExact ==
    \A s \in Sessions :
        pc[s] # "new" =>
            LET Fires(m) ==
                    \/ m = MsgRevenue /\ revenue_growth[s] > 2 * cashflow_growth[s]
                    \/ m = MsgAccruals /\ accruals[s] > 10
                    \/ m = MsgLeverage /\ debt_equity[s] > 120
                    \/ m = MsgWorkingCapital /\ working_capital_change[s] > 10
            IN  /\ flags[s] = SelectSeq(<<MsgRevenue, MsgAccruals, MsgLeverage,
                                         MsgWorkingCapital>>, Fires)
                /\ \A i, j \in DOMAIN flags[s] : i # j => flags[s][i] # flags[s][j]

\* C1 witness: an execution with every input exactly at its threshold, which
\* raises no flag.
C1_AtThresholds ==
    \E s \in Sessions :
        /\ pc[s] = "done"
        /\ revenue_growth[s] = 2 * cashflow_growth[s]
        /\ accruals[s] = 10
        /\ debt_equity[s] = 120
        /\ working_capital_change[s] = 10
        /\ flags[s] = <<>>

\* C2: after every execution fraud_score = min(100, 20 + 20 * flag_count),
\* that is 20, 40, 60, 80, 100 for 0..4 flags, an integer in 0..100.
C2_ScoreFormula ==
    \A s \in Sessions :
        pc[s] # "new" =>
            /\ fraud_score[s] =
                   (IF 20 + 20 * flag_count[s] > 100 THEN 100 ELSE 20 + 20 * flag_count[s])
            /\ <<flag_count[s], fraud_score[s]>>
                   \in {<<0, 20>>, <<1, 40>>, <<2, 60>>, <<3, 80>>, <<4, 100>>}
            /\ fraud_score[s] \in 0..100

\* C2 witness: an execution in which all four rules fire and the score is 100.
C2_FourFlagsScore100 ==
    \E s \in Sessions : pc[s] = "done" /\ flag_count[s] = 4 /\ fraud_score[s] = 100

\* C3: after every execution risk_label is LOW iff fraud_score < 40, MODERATE
\* iff 40 <= fraud_score < 70, HIGH iff fraud_score >= 70, and is one of the
\* three labels.
C3_LabelBands ==
    \A s \in Sessions :
        pc[s] # "new" =>
            /\ risk_label[s] \in {"LOW", "MODERATE", "HIGH"}
            /\ (risk_label[s] = "LOW") <=> (fraud_score[s] < 40)
            /\ (risk_label[s] = "MODERATE") <=> (40 <= fraud_score[s] /\ fraud_score[s] < 70)
            /\ (risk_label[s] = "HIGH") <=> (fraud_score[s] >= 70)

\* C3 witness: an execution whose score is exactly 40, labelled MODERATE.
C3_Score40Moderate ==
    \E s \in Sessions :
        pc[s] = "done" /\ fraud_score[s] = 40 /\ risk_label[s] = "MODERATE"

\* C4: flag_count equals the length of the flags list and lies in 0..4.
C4_CountIsLength ==
    \A s \in Sessions : flag_count[s] = Len(flags[s]) /\ flag_count[s] \in 0..4

\* C4 witness: an execution that raised exactly one flag.
C4_OneFlagCounted ==
    \E s \in Sessions : pc[s] = "done" /\ Len(flags[s]) = 1 /\ flag_count[s] = 1

\* C5: two evaluations with identical five inputs have identical flags,
\* flag_count, fraud_score and risk_label, whatever each session evaluated
\* before (two sessions, each with its own history of slider changes).
C5_NoHiddenState ==
    \A s, t \in Sessions :
        ( /\ pc[s] # "new" /\ pc[t] # "new"
          /\ revenue_growth[s] = revenue_growth[t]
          /\ cashflow_growth[s] = cashflow_growth[t]
          /\ accruals[s] = accruals[t]
          /\ debt_equity[s] = debt_equity[t]
          /\ working_capital_change[s] = working_capital_change[t] )
        => /\ flags[s] = flags[t]
           /\ flag_count[s] = flag_count[t]
           /\ fraud_score[s] = fraud_score[t]
           /\ risk_label[s] = risk_label[t]

\* C5 witness: two sessions that both moved sliders away from the defaults,
\* arrived at the same inputs and completed different executions (their
\* Benford tables differ).
C5_SameInputsTwoHistories ==
    \E s, t \in Sessions :
        /\ s # t /\ pc[s] = "done" /\ pc[t] = "done"
        /\ accruals[s] = 10 /\ accruals[t] = 10
        /\ working_capital_change[s] = 11 /\ working_capital_change[t] = 11
        /\ benford_df[s] # benford_df[t]

\* C6: the sliders are pre-filled with 25, 8, 12, 0.9, 15, and an execution
\* with these inputs gives flags <<revenue, accruals, working capital>>,
\* flag_count 3, fraud_score 80, risk_label HIGH, altman_z 1.50 and
\* beneish_m 1.92.
C6_DefaultScenario ==
    \A s \in Sessions :
        LET defaults ==
                /\ revenue_growth[s] = 25
                /\ cashflow_growth[s] = 8
                /\ accruals[s] = 12
                /\ debt_equity[s] = 90
                /\ working_capital_change[s] = 15
        IN  /\ pc[s] = "new" => defaults
            /\ (pc[s] # "new" /\ defaults) =>
                   /\ flags[s] = <<MsgRevenue, MsgAccruals, MsgWorkingCapital>>
                   /\ flag_count[s] = 3
                   /\ fraud_score[s] = 80
                   /\ risk_label[s] = "HIGH"
                   /\ altman_z[s] = 150
                   /\ beneish_m[s] = 192

\* C6 witness: the default inputs evaluated again after the button was pressed.
C6_DefaultsEvaluated ==
    \E s \in Sessions :
        /\ pc[s] = "done" /\ run[s]
        /\ revenue_growth[s] = 25 /\ cashflow_growth[s] = 8 /\ accruals[s] = 12
        /\ debt_equity[s] = 90 /\ working_capital_change[s] = 15
        /\ beneish_m[s] = 192

\* C7: the Benford table lists only digits 1..9, each at most once, every
\* listed digit with a count >= 1, and the counts sum to 200.
C7_BenfordTable ==
    \A s \in Sessions :
        pc[s] = "done" =>
            LET df == benford_df[s]
                total[i \in 0..Len(df)] == IF i = 0 THEN 0 ELSE total[i - 1] + df[i][2]
            IN  /\ \A i \in DOMAIN df : df[i][1] \in 1..9 /\ df[i][2] >= 1
                /\ \A i, j \in DOMAIN df : i # j => df[i][1] # df[j][1]
                /\ total[Len(df)] = 200

\* C7 witness: a tabulated draw in which some but not all digits occurred.
C7_SomeDigitsOmitted ==
    \E s \in Sessions :
        pc[s] = "done" /\ Len(benford_df[s]) > 1 /\ Len(benford_df[s]) < 9

\* C8: while one session's evaluation is in progress, no step of another
\* session changes state that evaluation goes on to read; here, the state of
\* the generator it is about to draw from.
C8_Isolated ==
    [][\A s, t \in Sessions :
          (s # t /\ pc[s] = "benford" /\ pc'[t] # pc[t]) => rng' = rng]_vars

\* C9: whenever the revenue/cash-flow flag is raised, revenue growth is
\* strictly greater than cash-flow growth.
C9_FlagMeansFaster ==
    \A s \in Sessions :
        (pc[s] # "new" /\ \E i \in DOMAIN flags[s] : flags[s][i] = MsgRevenue)
            => revenue_growth[s] > cashflow_growth[s]

\* C10: an execution that differs from the previous one only in the value of
\* the button (pressed against not pressed, the five inputs the same)
\* produces the same flags, flag_count, fraud_score, risk_label and risk
\* series, the series being <<30, 45, 55, 65, fraud_score>>.
C10_ButtonIrrelevant ==
    [][\A s \in Sessions :
          ( /\ pc[s] = "done"
            /\ run'[s] # run[s]
            /\ revenue_growth'[s] = revenue_growth[s]
            /\ cashflow_growth'[s] = cashflow_growth[s]
            /\ accruals'[s] = accruals[s]
            /\ debt_equity'[s] = debt_equity[s]
            /\ working_capital_change'[s] = working_capital_change[s] )
          => /\ flags'[s] = flags[s]
             /\ flag_count'[s] = flag_count[s]
             /\ fraud_score'[s] = fraud_score[s]
             /\ risk_label'[s] = risk_label[s]
             /\ risk_series'[s] = risk_series[s]
             /\ risk_series'[s] = <<30, 45, 55, 65, fraud_score'[s]>>]_vars

\* C10 witness: the button pressed on inputs that are not the defaults.
C10_PressedOffDefaults ==
    \E s \in Sessions :
        pc[s] = "benford" /\ run[s] /\ accruals[s] = 10 /\ debt_equity[s] = 121

====
